---- MODULE Spec2Model ----
(***************************************************************************)
(* A model of redisvl/utils/vectorize/text/openai.py: OpenAITextVectorizer. *)
(*                                                                         *)
(* The vectorizer is constructed (API key resolution, client creation, a   *)
(* probe of the remote endpoint that fixes dims) and then serves embed,    *)
(* embed_many, aembed and aembed_many calls.  Every call is wrapped by the  *)
(* tenacity retry decorator: stop_after_attempt(6),                        *)
(* retry_if_not_exception_type(TypeError), wait_random_exponential.        *)
(*                                                                         *)
(* Values.  Python values handed to the vectorizer are modelled by tokens: *)
(* the tokens of StrValues are instances of str, NotAStr is a value that   *)
(* is not (the integer 5).  An embedding of a text t is a sequence of      *)
(* remoteDims components, each component carrying t, so that the vector    *)
(* of one text is never the vector of another.                             *)
(***************************************************************************)
EXTENDS Integers, Sequences, FiniteSets, TLC

\* ---------------------------------------------------------------- bounds
MaxLen == 3          \* longest texts list of a sequential workload
MaxBatch == 2        \* largest batch_size
MaxDims == 2         \* largest dimension the remote model may have
CtorMaxLen == 1      \* longest texts list of the constructor workload

\* ------------------------------------------------------ program constants
MaxAttempts == 6     \* stop_after_attempt(6)

\* The callers of an interleaved workload; slot 0 is the constructor's probe.
Callers == {1, 2}
AllSlots == {0} \cup Callers

Sentinel == "dimension check"
DefaultModel == "text-embedding-ada-002"

\* ----------------------------------------------------------------- values
Texts == {"a", "B"}
NotAStr == "<int 5>"
StrValues == {"a", "B", "b", Sentinel}
Values == Texts \cup {NotAStr}

\* isinstance(x, str)
IsStr(x) == x \in StrValues

Min(a, b) == IF a < b THEN a ELSE b

SeqsUpTo(S, n) == UNION {[1..k -> S] : k \in 0..n}

\* A texts argument: a list of values, or something that is not a list.
NotAList == [list |-> FALSE, items |-> <<>>]
ListArg(s) == [list |-> TRUE, items |-> s]
TextsArgs(n) == {NotAList} \cup {ListArg(s) : s \in SeqsUpTo(Values, n)}

IsMany(k) == k \in {"embed_many", "aembed_many"}
IsAsyncKind(k) == k \in {"aembed", "aembed_many"}

\* The preprocess argument: None, a callable that lower-cases its str
\* argument (lambda t: t.lower()), or a callable that raises TypeError.
Preprocessors == {"None", "lower", "raises"}

VARIABLES
    ctor,        \* arguments and environment of the constructor call
    phase,       \* "new", "probing", "ready", "failed"
    error,       \* the exception construction ended with, or "none"
    vec,         \* the vectorizer's fields: model, dims, client, aclient
    remoteDims,  \* the dimension of the remote model
    workload,    \* "sequential", "constructor" or "interleaved"
    calls        \* per call slot: the arguments and the progress of the call

vars == <<ctor, phase, error, vec, remoteDims, workload, calls>>

\* ------------------------------------------------------------ construction
NoDims == -1         \* dims before the probe has set it (None)
ItemSize == 4        \* bytes of one component of a float32 buffer

Unset == [set |-> FALSE, val |-> ""]
Given(v) == [set |-> TRUE, val |-> v]

\* api_config: None, or a dict that may carry api_key and may carry another
\* client option (base_url).
CfgNone == [none |-> TRUE, hasKey |-> FALSE, key |-> "", hasOther |-> FALSE]
Cfg(hasKey, key, hasOther) ==
    [none |-> FALSE, hasKey |-> hasKey, key |-> key, hasOther |-> hasOther]
ApiConfigs ==
    { CfgNone, Cfg(FALSE, "", FALSE), Cfg(TRUE, "cfg-key", FALSE),
      Cfg(TRUE, "", FALSE), Cfg(FALSE, "", TRUE), Cfg(TRUE, "cfg-key", TRUE) }
\* OPENAI_API_KEY: unset, set to the empty string, set to a key.
EnvKeys == {Unset, Given(""), Given("env-key")}

CtorArgs == [api_config : ApiConfigs, env : EnvKeys, installed : BOOLEAN]
CtorDefault ==
    { [api_config |-> Cfg(TRUE, "cfg-key", FALSE), env |-> Unset, installed |-> TRUE] }
\* The constructor's arguments once __init__ has returned.
CtorDone == [api_config |-> CfgNone, env |-> Unset, installed |-> TRUE]

NoClient == [created |-> FALSE, api_key |-> "", base_url |-> FALSE]
Client(key, other) == [created |-> TRUE, api_key |-> key, base_url |-> other]

\* _initialize_clients: the exception it raises, or the key and the options
\* the two clients are created with.
InitializeClients(api_config, env, installed) ==
    LET cfg == IF api_config.none THEN Cfg(FALSE, "", FALSE) ELSE api_config
        truthy == cfg.hasKey \/ cfg.hasOther
        api_key == IF truthy THEN Given(cfg.key) ELSE env
    IN  IF ~installed
          THEN [exc |-> "ImportError", api_key |-> "", base_url |-> FALSE]
        ELSE IF truthy /\ ~cfg.hasKey
          THEN [exc |-> "KeyError", api_key |-> "", base_url |-> FALSE]
        ELSE IF ~api_key.set \/ api_key.val = ""
          THEN [exc |-> "ValueError", api_key |-> "", base_url |-> FALSE]
        ELSE [exc |-> "none", api_key |-> api_key.val, base_url |-> cfg.hasOther]

\* ------------------------------------------------------------------- calls
Idle ==
    [ kind |-> "embed", text |-> "a", texts |-> NotAList, preprocess |-> "None",
      batch_size |-> 1, as_buffer |-> FALSE,
      pc |-> "idle", attempt |-> 0, waits |-> 0, reqs |-> 0, pre |-> 0,
      pos |-> 0, embeddings |-> <<>>, sent |-> <<>>, exc |-> "none",
      outcome |-> "none", result |-> <<>> ]

NewCall(kind, text, texts, preprocess, batch_size, as_buffer) ==
    [ Idle EXCEPT !.kind = kind, !.text = text, !.texts = texts,
                  !.preprocess = preprocess, !.batch_size = batch_size,
                  !.as_buffer = as_buffer, !.pc = "attempt" ]

InFlight(c) == calls[c].pc \in {"attempt", "request", "wait"}

\* A blocking call holds the thread until it has returned: no other call
\* takes a step while a synchronous call is in flight.
CanRun(c) ==
    \A d \in DOMAIN calls :
        d # c => ~(InFlight(d) /\ ~IsAsyncKind(calls[d].kind))

\* The remote model's embedding of a text, and the data of the response to
\* a request: one embedding per input, in request order.
Embedding(t) == [j \in 1..remoteDims |-> t]
Respond(input) == [i \in 1..Len(input) |-> Embedding(input[i])]

\* What the remote client may do with a request: answer it, fail with an
\* API error or raise a TypeError of its own; a request for a single text
\* may also be answered with empty data.  An input that is not all str is
\* never answered.
RemoteOutcomes(input, single) ==
    IF \A i \in 1..Len(input) : IsStr(input[i])
      THEN {"ok", "APIError", "TypeError"} \cup (IF single THEN {"nodata"} ELSE {})
      ELSE {"APIError", "TypeError"}

\* _process_embedding: the embedding itself, or its byte buffer.
ProcessEmbedding(embedding, as_buffer) ==
    IF as_buffer
      THEN [n \in 1..(Len(embedding) * ItemSize) |->
              <<embedding[((n - 1) \div ItemSize) + 1], (n - 1) % ItemSize>>]
      ELSE embedding

Lower(t) == IF t = "B" THEN "b" ELSE t

\* preprocess(t): the exception raised or the value returned.
ApplyPreprocess(p, t) ==
    IF p = "raises" THEN [exc |-> "TypeError", val |-> t]
    ELSE IF p = "lower"
      THEN IF IsStr(t) THEN [exc |-> "none", val |-> Lower(t)]
                       ELSE [exc |-> "AttributeError", val |-> t]
    ELSE [exc |-> "none", val |-> t]

\* batchify: the number of batches, and the k-th batch it yields: the
\* exception raised while building it or the batch, and the number of
\* times preprocess was applied.
NumBatches(n, size) == (n + size - 1) \div size
Chunk(seq, size, k) == SubSeq(seq, (k - 1) * size + 1, Min(k * size, Len(seq)))
Batchify(seq, size, p, k) ==
    LET chunk == Chunk(seq, size, k)
        bad == {i \in 1..Len(chunk) : ApplyPreprocess(p, chunk[i]).exc # "none"}
        first == CHOOSE i \in bad : \A j \in bad : i <= j
    IN  IF p = "None" THEN [exc |-> "none", val |-> chunk, n |-> 0]
        ELSE IF bad # {}
          THEN [exc |-> ApplyPreprocess(p, chunk[first]).exc, val |-> <<>>, n |-> first]
        ELSE [exc |-> "none",
              val |-> [i \in 1..Len(chunk) |-> ApplyPreprocess(p, chunk[i]).val],
              n |-> Len(chunk)]

\* The decorator without retry=retry_if_not_exception_type(TypeError).
RetryDecision_retryAll(attempt, exc) ==
    IF attempt >= MaxAttempts THEN "stop" ELSE "retry"

\* The decorator stopping one attempt early.
RetryDecision_stopEarly(attempt, exc) ==
    IF exc = "TypeError" THEN "reraise"
    ELSE IF attempt >= MaxAttempts - 1 THEN "stop"
    ELSE "retry"

\* The retry decorator's decision after an attempt has raised exc.
RetryDecision(attempt, exc) ==
    IF exc = "TypeError" THEN "reraise"
    ELSE IF attempt >= MaxAttempts THEN "stop"
    ELSE "retry"

\* The call after its current attempt has raised exc: the exception is
\* raised to the caller, a RetryError is raised to the caller, or the
\* decorator waits before the next attempt.
Raise(r, exc) ==
    LET d == RetryDecision(r.attempt, exc)
        e == [r EXCEPT !.exc = exc]
    IN  IF d = "reraise" THEN [e EXCEPT !.pc = "done", !.outcome = exc]
        ELSE IF d = "stop" THEN [e EXCEPT !.pc = "done", !.outcome = "RetryError"]
        ELSE [e EXCEPT !.pc = "wait"]

\* The call after its current attempt has returned value.
Return(r, value) == [r EXCEPT !.pc = "done", !.outcome = "ok", !.result = value]

\* The input validation of embed_many / aembed_many, and of embed / aembed.
ValidTexts(texts) ==
    /\ texts.list
    /\ (Len(texts.items) > 0 => IsStr(texts.items[1]))
\* embed without its isinstance check.
ValidText_unchecked(text) == TRUE
ValidText(text) == IsStr(text)

\* One attempt counter for all the calls in flight.
NextAttempt_shared(c) ==
    1 + (CHOOSE m \in {calls[d].attempt : d \in DOMAIN calls} :
            \A d \in DOMAIN calls : calls[d].attempt <= m)

\* The attempt number of the attempt the decorator starts now.
NextAttempt(c) == calls[c].attempt + 1

\* An accumulator that outlives the attempt.
FreshEmbeddings_stale(c) == calls[c].embeddings

\* The result accumulator of a starting attempt (embeddings: List = []).
FreshEmbeddings(c) == <<>>

\* input=batch[0] in place of input=batch.
RequestInput_first(batch) == <<batch[1]>>

\* The input of the request for a batch (input=batch).
RequestInput(batch) == batch

\* embeddings = [...] in place of embeddings += [...].
Extend_assign(embeddings, data, as_buffer) ==
    [i \in 1..Len(data) |-> ProcessEmbedding(data[i], as_buffer)]

\* embeddings += [_process_embedding(r.embedding, ...) for r in response.data]
Extend(embeddings, data, as_buffer) ==
    embeddings \o [i \in 1..Len(data) |-> ProcessEmbedding(data[i], as_buffer)]

\* The length of the response's data in place of the embedding's.
ModelDims_ofData(embedding) == Len(<<embedding>>)

\* _set_model_dims: return len(embedding)
ModelDims(embedding) == Len(embedding)

Frame == UNCHANGED <<ctor, phase, error, vec, remoteDims, workload>>

\* ----------------------------------------------------------------- actions
\* __init__ up to the probe: resolve the key, create the clients, call
\* embed("dimension check").
Construct ==
    /\ phase = "new"
    /\ LET ic == InitializeClients(ctor.api_config, ctor.env, ctor.installed)
       IN  IF ic.exc # "none"
             THEN /\ phase' = "failed"
                  /\ error' = ic.exc
                  /\ UNCHANGED <<vec, calls>>
             ELSE /\ phase' = "probing"
                  /\ vec' = [vec EXCEPT !.client = Client(ic.api_key, ic.base_url),
                                        !.aclient = Client(ic.api_key, ic.base_url)]
                  /\ calls' = [calls EXCEPT
                                 ![0] = NewCall("embed", Sentinel, NotAList, "None", 1, FALSE)]
                  /\ UNCHANGED error
    /\ UNCHANGED <<ctor, remoteDims, workload>>

\* _set_model_dims once the probe has ended, and the assignment to dims.
SetModelDims ==
    /\ phase = "probing"
    /\ calls[0].pc = "done"
    /\ IF calls[0].outcome = "ok"
         THEN /\ vec' = [vec EXCEPT !.dims = ModelDims(calls[0].result)]
              /\ phase' = "ready"
              /\ ctor' = CtorDone
              /\ UNCHANGED error
         ELSE /\ error' = "ValueError"
              /\ phase' = "failed"
              /\ UNCHANGED <<vec, ctor>>
    /\ calls' = [calls EXCEPT ![0] = Idle]
    /\ UNCHANGED <<remoteDims, workload>>

\* The arguments the callers of a workload draw from.  The calls of an
\* interleaved workload use the default preprocess and as_buffer, and each
\* slot embeds texts of its own: lists of distinct texts that begin with
\* the slot's text, so that a vector of one call found in the result of
\* another shows.
Slots == IF workload = "interleaved" THEN Callers ELSE {1}
Injective(s) == \A i, j \in 1..Len(s) : s[i] = s[j] => i = j
OwnText(c) == IF c = 1 THEN "a" ELSE "B"
TextsOf(w, c) ==
    IF w = "sequential" THEN TextsArgs(MaxLen)
    ELSE IF w = "constructor" THEN TextsArgs(CtorMaxLen)
    ELSE {ListArg(s) : s \in {t \in SeqsUpTo(Texts, Cardinality(Texts)) :
                                 Injective(t) /\ (Len(t) > 0 => t[1] = OwnText(c))}}
ValuesOf(w, c) == IF w = "interleaved" THEN {OwnText(c), NotAStr} ELSE Values
PreprocessorsOf(w) == IF w = "interleaved" THEN {"None"} ELSE Preprocessors
BuffersOf(w) == IF w = "interleaved" THEN {FALSE} ELSE BOOLEAN

\* A call begins on a free slot of a constructed vectorizer.  A blocking
\* call is made while no other call is in flight.
CanBegin(c, kind) ==
    /\ phase = "ready"
    /\ c \in Slots
    /\ calls[c].pc = "idle"
    /\ CanRun(c)
    /\ ~IsAsyncKind(kind) => \A d \in DOMAIN calls : ~InFlight(d)

BeginMany(c, kind) ==
    /\ CanBegin(c, kind)
    /\ \E texts \in TextsOf(workload, c), p \in PreprocessorsOf(workload),
          b \in 1..MaxBatch, as_buffer \in BuffersOf(workload) :
          calls' = [calls EXCEPT ![c] = NewCall(kind, "a", texts, p, b, as_buffer)]
    /\ Frame

BeginOne(c, kind) ==
    /\ CanBegin(c, kind)
    /\ \E text \in ValuesOf(workload, c), p \in PreprocessorsOf(workload),
          as_buffer \in BuffersOf(workload) :
          calls' = [calls EXCEPT ![c] = NewCall(kind, text, NotAList, p, 1, as_buffer)]
    /\ Frame

\* A caller calls one of the four entry points.
EmbedMany(c) == BeginMany(c, "embed_many")
Embed(c) == BeginOne(c, "embed")
AEmbedMany(c) == BeginMany(c, "aembed_many")
AEmbed(c) == BeginOne(c, "aembed")

\* The decorator starts an attempt: the function is entered, validates its
\* input and initialises the accumulator.
StartAttempt(c) ==
    /\ calls[c].pc = "attempt"
    /\ CanRun(c)
    /\ LET r == [calls[c] EXCEPT !.attempt = NextAttempt(c), !.pos = 1,
                                 !.embeddings = FreshEmbeddings(c), !.sent = <<>>,
                                 !.exc = "none"]
       IN  calls' = [calls EXCEPT ![c] =
             IF IsMany(r.kind)
               THEN IF ~ValidTexts(r.texts) THEN Raise(r, "TypeError")
                    ELSE IF Len(r.texts.items) = 0 THEN Return(r, r.embeddings)
                    ELSE [r EXCEPT !.pc = "request"]
               ELSE IF ~ValidText(r.text) THEN Raise(r, "TypeError")
                    ELSE [r EXCEPT !.pc = "request"]]
    /\ Frame

\* One turn of the loop of embed_many / aembed_many: the next batch is
\* built, requested and its embeddings are appended.
RequestMany(c) ==
    LET r == calls[c]
        b == Batchify(r.texts.items, r.batch_size, r.preprocess, r.pos)
        r0 == [r EXCEPT !.pre = @ + b.n]
    IN  IF b.exc # "none"
          THEN calls' = [calls EXCEPT ![c] = Raise(r0, b.exc)]
          ELSE \E o \in RemoteOutcomes(RequestInput(b.val), FALSE) :
                 LET input == RequestInput(b.val)
                     r1 == [r0 EXCEPT !.reqs = @ + 1, !.sent = Append(@, input)]
                     r2 == [r1 EXCEPT !.embeddings =
                              Extend(@, Respond(input), r.as_buffer)]
                 IN  calls' = [calls EXCEPT ![c] =
                       IF o # "ok" THEN Raise(r1, o)
                       ELSE IF r.pos >= NumBatches(Len(r.texts.items), r.batch_size)
                         THEN Return(r2, r2.embeddings)
                       ELSE [r2 EXCEPT !.pos = @ + 1]]

\* The body of embed / aembed after validation.
RequestOne(c) ==
    LET r == calls[c]
        p == IF r.preprocess = "None"
               THEN [exc |-> "none", val |-> r.text]
               ELSE ApplyPreprocess(r.preprocess, r.text)
        r0 == [r EXCEPT !.pre = @ + (IF r.preprocess = "None" THEN 0 ELSE 1)]
    IN  IF p.exc # "none"
          THEN calls' = [calls EXCEPT ![c] = Raise(r0, p.exc)]
          ELSE \E o \in RemoteOutcomes(<<p.val>>, TRUE) :
                 LET r1 == [r0 EXCEPT !.reqs = @ + 1, !.sent = Append(@, <<p.val>>)]
                 IN  calls' = [calls EXCEPT ![c] =
                       IF o = "ok"
                         THEN Return(r1, ProcessEmbedding(Respond(<<p.val>>)[1], r.as_buffer))
                       ELSE IF o = "nodata" THEN Raise(r1, "IndexError")
                       ELSE Raise(r1, o)]

Request(c) ==
    /\ calls[c].pc = "request"
    /\ CanRun(c)
    /\ IF IsMany(calls[c].kind) THEN RequestMany(c) ELSE RequestOne(c)
    /\ Frame

\* The decorator's backoff wait between two attempts.
Wait(c) ==
    /\ calls[c].pc = "wait"
    /\ CanRun(c)
    /\ calls' = [calls EXCEPT ![c] = [@ EXCEPT !.waits = @ + 1, !.pc = "attempt"]]
    /\ Frame

\* The decorated call has returned to (or raised into) its caller.
Finish(c) ==
    /\ c \in Slots
    /\ calls[c].pc = "done"
    /\ calls' = [calls EXCEPT ![c] = Idle]
    /\ Frame

\* ----------------------------------------------------------- specifications
InitWith(ctors, w) ==
    /\ ctor \in ctors
    /\ phase = "new"
    /\ error = "none"
    /\ vec = [model |-> DefaultModel, dims |-> NoDims,
              client |-> NoClient, aclient |-> NoClient]
    /\ remoteDims \in 1..MaxDims
    /\ workload = w
    /\ calls = [c \in AllSlots |-> Idle]

Init == InitWith(CtorDefault, "sequential")
InitCtor == InitWith(CtorArgs, "constructor")
InitAsync == InitWith(CtorDefault, "interleaved")

Next ==
    \/ Construct
    \/ SetModelDims
    \/ \E c \in AllSlots :
         \/ EmbedMany(c)
         \/ Embed(c)
         \/ AEmbedMany(c)
         \/ AEmbed(c)
         \/ StartAttempt(c)
         \/ Request(c)
         \/ Wait(c)
         \/ Finish(c)

Spec == Init /\ [][Next]_vars
SpecCtor == InitCtor /\ [][Next]_vars
SpecAsync == InitAsync /\ [][Next]_vars

\* ------------------------------------------------------------- properties
\* A texts argument that is not a list of str only.
HasNonStr(texts) ==
    ~texts.list \/ \E i \in 1..Len(texts.items) : ~IsStr(texts.items[i])
AllStr(texts) == ~HasNonStr(texts)

\* The value preprocess returns for a str, the entry of the result that
\* belongs to text t, and the number of components of a result entry.
Pre(p, t) == IF p = "lower" /\ t = "B" THEN "b" ELSE t
RemoteVector(t) == [j \in 1..remoteDims |-> t]
ExpectedEntry(r, t) ==
    IF r.as_buffer
      THEN [n \in 1..(remoteDims * ItemSize) |-> <<Pre(r.preprocess, t), (n - 1) % ItemSize>>]
      ELSE RemoteVector(Pre(r.preprocess, t))
Components(e, as_buffer) ==
    IF as_buffer
      THEN CHOOSE d \in 0..Len(e) : d * ItemSize = Len(e)
      ELSE Len(e)
Ceil(n, b) == CHOOSE q \in 0..n : q * b >= n /\ (q = 0 \/ (q - 1) * b < n)
RECURSIVE Flatten(_)
Flatten(ss) == IF Len(ss) = 0 THEN <<>> ELSE Head(ss) \o Flatten(Tail(ss))
RejectedByValidation(r) ==
    IF IsMany(r.kind) THEN ~ValidTexts(r.texts) ELSE ~ValidText(r.text)

\* C1: embed_many / aembed_many called with something that is not a list,
\* or with a list that holds a non-str element at any position, ends with
\* a TypeError.
C1_NonStrAnywhereIsTypeError ==
    \A c \in DOMAIN calls :
        (IsMany(calls[c].kind) /\ calls[c].pc = "done" /\ HasNonStr(calls[c].texts))
            => calls[c].outcome = "TypeError"

\* C2: embed / aembed called with a text that is not a str ends with a
\* TypeError, with preprocess never applied and no request ever sent.
C2_NonStrTextRejectedFirst ==
    \A c \in DOMAIN calls :
        LET r == calls[c]
        IN  (~IsMany(r.kind) /\ r.pc # "idle" /\ ~IsStr(r.text)) =>
              /\ r.pre = 0
              /\ r.reqs = 0
              /\ r.sent = <<>>
              /\ r.pc \in {"attempt", "done"}
              /\ (r.pc = "attempt" => r.attempt = 0)
              /\ (r.pc = "done" => r.outcome = "TypeError")

C2_Witness ==
    \E c \in DOMAIN calls :
        /\ ~IsMany(calls[c].kind)
        /\ ~IsStr(calls[c].text)
        /\ calls[c].preprocess # "None"
        /\ calls[c].pc = "done"
        /\ calls[c].outcome = "TypeError"

\* C3: a TypeError is never retried: the attempt that raised it is the
\* last, the call ends with the TypeError, no backoff wait and no request
\* follow; a call rejected by input validation is exactly one attempt.
C3_TypeErrorEndsCall ==
    \A c \in DOMAIN calls :
        LET r == calls[c]
        IN  /\ r.exc = "TypeError" =>
                 /\ r.pc = "done"
                 /\ r.outcome = "TypeError"
                 /\ r.waits = r.attempt - 1
            /\ (r.attempt >= 1 /\ RejectedByValidation(r)) =>
                 /\ r.pc = "done"
                 /\ r.outcome = "TypeError"
                 /\ r.attempt = 1
                 /\ r.waits = 0
                 /\ r.reqs = 0
C3_TypeErrorNeverRetried ==
    /\ []C3_TypeErrorEndsCall
    /\ [][\A c \in DOMAIN calls :
            calls[c].exc = "TypeError" =>
                (calls'[c] = calls[c] \/ calls'[c] = Idle)]_vars

C3_Witness ==
    \E c \in DOMAIN calls :
        /\ calls[c].exc = "TypeError"
        /\ calls[c].pc = "done"
        /\ calls[c].attempt > 1
        /\ calls[c].reqs >= 1

\* C4: a failure other than a TypeError is followed by another attempt
\* while fewer than 6 attempts were made; there is no 7th attempt; the
\* first success ends the call; the failure of the 6th attempt is raised
\* to the caller.
C4_Bounded ==
    \A c \in DOMAIN calls :
        LET r == calls[c]
            failed == r.exc \notin {"none", "TypeError"}
        IN  /\ r.attempt <= MaxAttempts
            /\ (failed /\ r.attempt < MaxAttempts) => r.pc \in {"wait", "attempt"}
            /\ (failed /\ r.attempt = MaxAttempts) =>
                  (r.pc = "done" /\ r.outcome = "RetryError" /\ r.result = <<>>)
            /\ r.outcome = "RetryError" => (r.attempt = MaxAttempts /\ failed)
            /\ r.outcome = "ok" =>
                  /\ r.pc = "done"
                  /\ r.exc = "none"
                  /\ r.result = IF IsMany(r.kind) THEN r.embeddings
                                                  ELSE ExpectedEntry(r, r.text)
            /\ r.pc = "request" => r.exc = "none"
C4_BoundedRetry ==
    /\ []C4_Bounded
    /\ [][\A c \in DOMAIN calls :
            calls'[c] # calls[c] =>
              /\ calls[c].pc = "wait" =>
                   (calls'[c].pc = "attempt" /\ calls'[c].attempt = calls[c].attempt)
              /\ calls[c].pc = "attempt" =>
                   calls'[c].attempt = calls[c].attempt + 1
              /\ calls[c].pc = "request" =>
                   calls'[c].attempt = calls[c].attempt
              /\ calls[c].pc = "done" => calls'[c] = Idle]_vars

C4_Witness ==
    \E c \in DOMAIN calls :
        /\ calls[c].pc = "done"
        /\ calls[c].outcome = "RetryError"
        /\ calls[c].attempt = MaxAttempts
        /\ calls[c].waits = MaxAttempts - 1

\* C5: embed_many / aembed_many of a list of N str that returns, returns
\* N entries, the i-th being the embedding of the i-th (preprocessed)
\* text, each of dims components.
C5_OneVectorPerText ==
    \A c \in DOMAIN calls :
        LET r == calls[c]
            items == r.texts.items
        IN  (IsMany(r.kind) /\ r.pc = "done" /\ r.outcome = "ok" /\ AllStr(r.texts)) =>
              /\ Len(r.result) = Len(items)
              /\ \A i \in 1..Len(items) :
                    /\ i <= Len(r.result)
                    /\ r.result[i] = ExpectedEntry(r, items[i])
                    /\ Components(r.result[i], r.as_buffer) = vec.dims

C5_Witness ==
    \E c \in DOMAIN calls :
        LET r == calls[c]
        IN  /\ IsMany(r.kind) /\ r.pc = "done" /\ r.outcome = "ok"
            /\ Len(r.texts.items) = 3 /\ r.batch_size = 2
            /\ r.texts.items[1] # r.texts.items[2]
            /\ r.preprocess = "lower"
            /\ r.attempt > 1

\* C6: dims is fixed once, by the probe: the constructor embeds the
\* sentinel through embed, dims becomes the length of the vector the
\* probe returned, a probe that does not succeed makes construction fail
\* with a ValueError, and no call changes dims afterwards.
C6_ProbeState ==
    /\ phase # "ready" =>
          /\ vec.dims = NoDims
          /\ \A c \in Callers : calls[c] = Idle
    /\ phase = "probing" =>
          /\ calls[0].kind = "embed"
          /\ calls[0].text = Sentinel
          /\ calls[0].preprocess = "None"
          /\ calls[0].pc # "idle"
          /\ calls[0].attempt <= MaxAttempts
          /\ \A k \in 1..Len(calls[0].sent) : calls[0].sent[k] = <<Sentinel>>
    /\ phase = "ready" => vec.dims = Len(RemoteVector(Sentinel))
C6_DimsFixedByProbe ==
    /\ []C6_ProbeState
    /\ [][(phase = "probing" /\ phase' # "probing") =>
            /\ calls[0].pc = "done"
            /\ IF calls[0].outcome = "ok"
                 THEN /\ phase' = "ready"
                      /\ vec'.dims = Len(calls[0].result)
                      /\ error' = "none"
                 ELSE /\ phase' = "failed"
                      /\ error' = "ValueError"
                      /\ vec'.dims = NoDims]_vars
    /\ [][vec'.dims # vec.dims => (phase = "probing" /\ phase' = "ready")]_vars
    /\ [][phase = "ready" => (phase' = "ready" /\ vec'.dims = vec.dims)]_vars
    /\ [][phase = "failed" => phase' = "failed"]_vars

C6_Witness ==
    /\ phase = "ready"
    /\ vec.dims = MaxDims
    /\ \E c \in Callers :
          /\ calls[c].pc = "done"
          /\ calls[c].outcome = "ok"
          /\ calls[c].attempt > 1

\* C7: the key used is the api_key entry of api_config when given,
\* otherwise the value of OPENAI_API_KEY, also when api_config carries
\* only other options; with no non-empty key from either source
\* construction fails with a ValueError, no client created, no request.
C7_KeyResolution ==
    LET cfg == ctor.api_config
        fromCfg == ~cfg.none /\ cfg.hasKey
        fromEnv == ctor.env.set /\ ctor.env.val # ""
    IN  (phase \in {"probing", "failed"} /\ ctor.installed) =>
          /\ (fromCfg /\ cfg.key # "") =>
                (vec.client.created /\ vec.client.api_key = cfg.key)
          /\ (~fromCfg /\ fromEnv) =>
                (vec.client.created /\ vec.client.api_key = ctor.env.val)
          /\ (~(fromCfg /\ cfg.key # "") /\ ~fromEnv) =>
                /\ phase = "failed"
                /\ error = "ValueError"
                /\ ~vec.client.created
                /\ ~vec.aclient.created
                /\ calls[0] = Idle

\* C8: in an attempt in which no request fails, a list of N str and
\* batch_size b make ceil(N / b) requests in input order, each of at most
\* b texts, only the last of fewer, whose inputs concatenated are the
\* preprocessed list; for N = 0 no request is made and [] is returned.
C8_Batching ==
    \A c \in DOMAIN calls :
        LET r == calls[c]
            items == r.texts.items
            N == Len(items)
            b == r.batch_size
        IN  (IsMany(r.kind) /\ r.pc = "done" /\ r.outcome = "ok" /\ AllStr(r.texts)) =>
              /\ Len(r.sent) = Ceil(N, b)
              /\ \A k \in 1..Len(r.sent) :
                    /\ Len(r.sent[k]) >= 1
                    /\ Len(r.sent[k]) <= b
                    /\ k < Len(r.sent) => Len(r.sent[k]) = b
              /\ Flatten(r.sent) = [i \in 1..N |-> Pre(r.preprocess, items[i])]
              /\ N = 0 => (r.reqs = 0 /\ r.result = <<>>)

C8_Witness ==
    \E c \in DOMAIN calls :
        LET r == calls[c]
        IN  /\ IsMany(r.kind) /\ r.pc = "done" /\ r.outcome = "ok"
            /\ Len(r.texts.items) = 3 /\ r.batch_size = 2
            /\ Len(r.sent) = 2
            /\ Len(r.sent[2]) = 1

\* C9: the whole call is retried, not the failed batch: an attempt starts
\* at batch 1 with an empty accumulator, the accumulator holds the
\* vectors of the current attempt only, and one call makes at most
\* 6 * ceil(N / batch_size) requests.
C9_AttemptState ==
    \A c \in DOMAIN calls :
        LET r == calls[c]
            items == r.texts.items
            N == Len(items)
            b == r.batch_size
        IN  (IsMany(r.kind) /\ r.pc # "idle") =>
              /\ r.reqs <= MaxAttempts * Ceil(N, b)
              /\ r.reqs <= r.attempt * Ceil(N, b)
              /\ r.pc = "request" =>
                    /\ Len(r.sent) = r.pos - 1
                    /\ \A k \in 1..Len(r.sent) : \A j \in 1..Len(r.sent[k]) :
                          r.sent[k][j] = Pre(r.preprocess, items[(k - 1) * b + j])
                    /\ r.embeddings =
                          [i \in 1..((r.pos - 1) * b) |-> ExpectedEntry(r, items[i])]
              /\ (r.pc = "done" /\ r.outcome = "ok") =>
                    r.result = [i \in 1..N |-> ExpectedEntry(r, items[i])]
C9_WholeCallRetried ==
    /\ []C9_AttemptState
    /\ [][\A c \in DOMAIN calls :
            (IsMany(calls'[c].kind) /\ calls'[c].attempt = calls[c].attempt + 1) =>
              /\ calls'[c].sent = <<>>
              /\ calls'[c].embeddings = <<>>
              /\ calls'[c].pc = "request" => calls'[c].pos = 1]_vars

C9_Witness ==
    \E c \in DOMAIN calls :
        LET r == calls[c]
        IN  /\ IsMany(r.kind) /\ r.pc = "request"
            /\ r.attempt = 2 /\ r.pos = 2 /\ r.reqs = 3
            /\ Len(r.embeddings) = r.batch_size

\* C10: interleaved calls are independent: a step of one call writes
\* neither the vectorizer nor another call, every call counts its own
\* attempts and has its own 6, and a result holds the vectors of the
\* call's own texts only.
C10_OwnState ==
    \A c \in Callers :
        LET r == calls[c]
            items == r.texts.items
        IN  /\ r.attempt <= MaxAttempts
            /\ r.pc \in {"request", "done"} => r.attempt = r.waits + 1
            /\ r.pc = "wait" => r.attempt = r.waits + 1
            /\ r.outcome = "RetryError" => r.attempt = MaxAttempts
            /\ (r.pc = "done" /\ r.outcome = "ok") =>
                  IF IsMany(r.kind)
                    THEN r.result = [i \in 1..Len(items) |-> ExpectedEntry(r, items[i])]
                    ELSE r.result = ExpectedEntry(r, r.text)
C10_Independent ==
    /\ []C10_OwnState
    /\ [][phase = "ready" =>
            /\ vec' = vec
            /\ \A c, d \in Callers :
                  (c # d /\ calls'[c] # calls[c]) => calls'[d] = calls[d]]_vars

C10_Witness ==
    /\ calls[1].kind = "aembed_many" /\ calls[1].pc = "request"
    /\ calls[1].pos = 2 /\ calls[1].attempt = 1
    /\ calls[2].kind = "aembed_many" /\ calls[2].pc = "request"
    /\ calls[2].pos = 2 /\ calls[2].attempt = MaxAttempts

====
